---- MODULE Spec2Model ----
(***************************************************************************)
(* STM32 system clock driver of libuavcan (uc_stm32_clock.cpp).            *)
(*                                                                         *)
(* A 16-bit hardware timer counts microseconds and raises an update        *)
(* interrupt on every wrap.  The interrupt handler accumulates the wraps   *)
(* into two 64-bit time bases (monotonic and UTC); readers combine an      *)
(* accumulator with the live counter; adjustUtc() steers the UTC base.     *)
(*                                                                         *)
(* Execution model: one core.  Threads are preempted at statement          *)
(* granularity.  A CriticalSectionLock masks interrupts and thread         *)
(* switches, but the timer keeps counting.  The timer interrupt handler    *)
(* runs to completion.  64-bit quantities stay far below 2^31 within the   *)
(* bounds below, so they are written as plain integers.                    *)
(***************************************************************************)
EXTENDS Integers, FiniteSets

(* ---------------------------------------------------------------------- *)
(* Program constants                                                       *)
(* ---------------------------------------------------------------------- *)
USecPerOverflow == 65536
MaxUtcSpeedCorrection == 500
TimerARR == 65535
PPMScale == 1000000
Int32Max == 2147483647

(* ---------------------------------------------------------------------- *)
(* Bounds of the model                                                     *)
(* ---------------------------------------------------------------------- *)
MaxWraps == 2
MaxAdjustCalls == 2
NumCntSamples == 1
ScenarioWraps == 3

\* Two threads: one reads the clock and its diagnostics, the other sets the
\* clock up and runs the time synchronisation.  Calls of adjustUtc by several
\* threads are serialised by the mutex from line 147 to the return, so one
\* adjusting thread produces the same sequences of adjustUtc bodies.
Reader == "T1"
Adjuster == "T2"
Threads == {Reader, Adjuster}
CanIrq == "CAN"
Procs == Threads \cup {CanIrq}
None == "none"

\* Counter values the timer is observed at: evenly spaced samples (the first
\* is the value right after a reload) and the last value before a reload.
CntValues ==
    {(i * USecPerOverflow) \div NumCntSamples : i \in 0..(NumCntSamples - 1)}
        \cup {TimerARR}

\* Arguments of adjustUtc, in microseconds.
Deltas == {0, 50, -50, 1500, 2000000, -2000000}

VARIABLES
    initialized,    \* clock::initialized
    utc_set,        \* clock::utc_set
    utc_jump_cnt,   \* clock::utc_jump_cnt
    utc_correction_usec_per_overflow,
    time_mono,      \* clock::time_mono
    time_utc,       \* clock::time_utc
    mutex,          \* clock::mutex: its holder, or None
    CNT,            \* TIMX->CNT
    UIF,            \* TIMX->SR & TIM_SR_UIF
    cs,             \* holder of the CriticalSectionLock, or None
    pc,             \* position of each thread / of the CAN interrupt
    op,             \* operation each process is executing
    adj,            \* adjustUtc: the argument, in microseconds
    time,           \* sampleFromCriticalSection: local `time`
    cnt,            \* sampleFromCriticalSection: local `cnt`
    usec,           \* value returned by the finished operation
    exit,           \* return point taken by the finished operation
    wraps,          \* number of hardware wraps so far
    handled,        \* number of timer interrupts handled so far
    adj_calls,      \* adjustUtc calls made, counted against MaxAdjustCalls
    prev_usec,      \* getMonotonic: static prev_usec, the value returned last
    jump_offsets,   \* history: clock value adjustments made on a set clock
    utc_at_call,    \* history: time_utc when the adjustUtc call began
    irq_added,      \* history: what the handler added to time_utc since then
    clamped,        \* history: the call set time_utc to 1 (line 186)
    true_usec,      \* history: hardware time at getMonotonic's last read of CNT
    utc_seen,       \* history: the caller holds a getUtc value, no clock step since
    prev_utc        \* history: that value (the latest)

clockVars == <<initialized, utc_set, utc_jump_cnt,
               utc_correction_usec_per_overflow, time_mono, time_utc>>
hwVars == <<CNT, UIF, wraps>>
procVars == <<pc, op, adj, time, cnt, usec, exit>>
\* History variables: they record what happened and steer nothing.
ghostVars == <<jump_offsets, utc_at_call, irq_added, clamped, true_usec,
               utc_seen, prev_utc>>
vars == <<initialized, utc_set, utc_jump_cnt, utc_correction_usec_per_overflow,
          time_mono, time_utc, mutex, CNT, UIF, cs, pc, op, adj, time, cnt,
          usec, exit, wraps, handled, adj_calls, prev_usec, jump_offsets,
          utc_at_call, irq_added, clamped, true_usec, utc_seen, prev_utc>>

Abs(x) == IF x < 0 THEN -x ELSE x

Upd(f, p, v) == [f EXCEPT ![p] = v]

(* ---------------------------------------------------------------------- *)
(* Pure pieces of the code                                                 *)
(* ---------------------------------------------------------------------- *)

\* Variant: the pending wrap is not compensated.
OverflowCompensationMissing(t) == t

\* sampleFromCriticalSection, line 105: a wrap is pending, not handled yet.
OverflowCompensation(t) == t + USecPerOverflow

\* Variant: the period is applied twice.
IrqMonoIncrementTwice(mono) == mono + 2 * USecPerOverflow

\* TIMX_IRQHandler, line 247.
IrqMonoIncrement(mono) == mono + USecPerOverflow

\* Variant: the per-wrap correction is left out.
IrqUtcIncrementUncorrected(set, utc, corr) ==
    IF set THEN utc + USecPerOverflow ELSE utc

\* Variant: the correction is applied twice over.
IrqUtcIncrementDoubled(set, utc, corr) ==
    IF set THEN utc + USecPerOverflow + 2 * corr ELSE utc

\* TIMX_IRQHandler, lines 248-251.  The uint32 sum USecPerOverflow + int32
\* correction equals the mathematical sum because |correction| <= 500.
IrqUtcIncrement(set, utc, corr) ==
    IF set THEN utc + (USecPerOverflow + corr) ELSE utc

\* Variant: the early return is missing.
PerfectSyncIgnored(a, set) == FALSE

\* adjustUtc, line 150: "Perfect sync".
PerfectSync(a, set) == a = 0 /\ set

\* Variant: the step is proportional to the sign-less size of the error.
SpeedTrimDoubleStep(corr, a) ==
    IF a > 0
    THEN IF corr < MaxUtcSpeedCorrection THEN corr + 2 ELSE corr
    ELSE IF corr > -MaxUtcSpeedCorrection THEN corr - 2 ELSE corr

\* Variant: the bounds are not enforced.
SpeedTrimUnbounded(corr, a) == IF a > 0 THEN corr + 1 ELSE corr - 1

\* adjustUtc, lines 159-172: naive speed adjustment.
SpeedTrim(corr, a) ==
    IF a > 0
    THEN IF corr < MaxUtcSpeedCorrection THEN corr + 1 ELSE corr
    ELSE IF corr > -MaxUtcSpeedCorrection THEN corr - 1 ELSE corr

\* UtcDuration::toMSec() compared with a whole number of milliseconds.
ExceedsMSec(us, ms) == us > ms * 1000

\* Variant: the first adjustment is not forced.
NeedsClockAdjustmentLargeOnly(a, set) == ExceedsMSec(Abs(a), 1)

\* adjustUtc, line 178: is the clock value itself adjusted?
NeedsClockAdjustment(a, set) == ExceedsMSec(Abs(a), 1) \/ ~set

\* Variant: the guard against stepping below zero is missing.
ClockAdjustmentUnguarded(utc, a) == utc + a

\* adjustUtc, lines 184-191 (inside the critical section).
ClockAdjustment(utc, a) ==
    IF a < 0 /\ -a > utc THEN 1 ELSE utc + a

\* Variant: the quotient is rounded toward minus infinity.
SpeedCorrectionPPMFloor(corr) == (corr * PPMScale) \div USecPerOverflow

\* getUtcSpeedCorrectionPPM, line 209: int32 product, widened to int64, then
\* divided with truncation toward zero.
SpeedCorrectionPPM(corr) ==
    LET prod == corr * PPMScale
    IN  IF prod < 0 THEN -((-prod) \div USecPerOverflow)
                    ELSE prod \div USecPerOverflow

(* ---------------------------------------------------------------------- *)
(* Initial state: static initialisation of the globals, timer not started  *)
(* ---------------------------------------------------------------------- *)
Idle == [p \in Procs |-> "idle"]
NoOp == [p \in Procs |-> "none"]
Zero == [p \in Procs |-> 0]

Init ==
    /\ initialized = FALSE
    /\ utc_set = FALSE
    /\ utc_jump_cnt = 0
    /\ utc_correction_usec_per_overflow = 0
    /\ time_mono = 0
    /\ time_utc = 0
    /\ mutex = None
    /\ CNT = 0
    /\ UIF = FALSE
    /\ cs = None
    /\ pc = Idle
    /\ op = NoOp
    /\ adj = Zero
    /\ time = Zero
    /\ cnt = Zero
    /\ usec = Zero
    /\ exit = NoOp
    /\ wraps = 0
    /\ handled = 0
    /\ adj_calls = 0
    /\ prev_usec = 0
    /\ jump_offsets = 0
    /\ utc_at_call = 0
    /\ irq_added = 0
    /\ clamped = FALSE
    /\ true_usec = 0
    /\ utc_seen = FALSE
    /\ prev_utc = 0

(* ---------------------------------------------------------------------- *)
(* Scheduling                                                              *)
(* ---------------------------------------------------------------------- *)

\* "done" is the instant of the return: the result is handed over (Return)
\* before anything else moves.
Settled == \A p \in Procs : pc[p] # "done"

\* A thread runs when no interrupt handler is active and no other thread is
\* inside a critical section; the CAN interrupt is taken only outside
\* critical sections.
Scheduled(p) ==
    IF p \in Threads
    THEN pc[CanIrq] = "idle" /\ cs \in {None, p}
    ELSE cs = None

Runnable(p) == Settled /\ Scheduled(p)

\* The timer interrupt is taken when it is pending, not masked by a critical
\* section, and no handler of the same priority is running.
\* Variant: the pending timer interrupt is taken wherever execution stands.
TimerIrqDeliverableUnmasked == Settled /\ initialized /\ UIF

\* The CAN interrupt handler, which calls getUtcUSecFromCanInterrupt(), is
\* entered at the priority the timer interrupt has (line 66): while it runs,
\* the timer interrupt stays pending.
CanIsrMasksTimerIrq == pc[CanIrq] # "idle"

TimerIrqDeliverable ==
    Settled /\ initialized /\ UIF /\ cs = None /\ ~CanIsrMasksTimerIrq

\* An operation ends: the process holds its result until it returns.  On the
\* return of getMonotonic the self-test's prev_usec takes the value (line 126).
Finish(p, value, how) ==
    /\ pc' = Upd(pc, p, "done")
    /\ usec' = Upd(usec, p, value)
    /\ exit' = Upd(exit, p, how)

Return(p) ==
    /\ pc[p] = "done"
    /\ Scheduled(p)
    /\ pc' = Upd(pc, p, "idle")
    /\ op' = Upd(op, p, "none")
    /\ adj' = Upd(adj, p, 0)
    /\ time' = Upd(time, p, 0)
    /\ cnt' = Upd(cnt, p, 0)
    /\ usec' = Upd(usec, p, 0)
    /\ exit' = Upd(exit, p, "none")
    /\ prev_usec' = IF op[p] = "getMonotonic" THEN usec[p] ELSE prev_usec
    /\ IF op[p] = "adjustUtc"
       THEN utc_at_call' = 0 /\ irq_added' = 0 /\ clamped' = FALSE
       ELSE UNCHANGED <<utc_at_call, irq_added, clamped>>
    /\ true_usec' = IF op[p] = "getMonotonic" THEN 0 ELSE true_usec
    /\ IF op[p] = "getUtc"
       THEN utc_seen' = FALSE /\ prev_utc' = 0
       ELSE UNCHANGED <<utc_seen, prev_utc>>
    /\ UNCHANGED <<clockVars, hwVars, mutex, cs, handled, adj_calls,
                   jump_offsets>>

(* ---------------------------------------------------------------------- *)
(* Hardware timer                                                          *)
(* ---------------------------------------------------------------------- *)

\* The counter runs freely and is observable only by reading TIMX->CNT: a
\* read finds it at its last observed value or at any later one.
CounterReadings == {c \in CntValues : c >= CNT}

\* The counter passes ARR and reloads; the update flag is raised.  Each wrap
\* is handled before the next one occurs (the handler runs once per wrap).
TimerWrap ==
    /\ Settled
    /\ initialized
    /\ ~UIF
    /\ wraps < MaxWraps
    /\ CNT' = 0
    /\ UIF' = TRUE
    /\ wraps' = wraps + 1
    /\ UNCHANGED <<clockVars, mutex, cs, procVars, handled, adj_calls,
                   prev_usec, ghostVars>>

\* The same wrap, counted against the length of the monotonic scenario.
TimerWrapScenario ==
    /\ Settled
    /\ initialized
    /\ ~UIF
    /\ wraps < ScenarioWraps
    /\ CNT' = 0
    /\ UIF' = TRUE
    /\ wraps' = wraps + 1
    /\ UNCHANGED <<clockVars, mutex, cs, procVars, handled, adj_calls,
                   prev_usec, ghostVars>>

(* ---------------------------------------------------------------------- *)
(* Timer interrupt handler, lines 237-254                                  *)
(* ---------------------------------------------------------------------- *)
TIMX_IRQHandler ==
    /\ TimerIrqDeliverable
    /\ UIF' = FALSE
    /\ time_mono' = IrqMonoIncrement(time_mono)
    /\ time_utc' = IrqUtcIncrement(utc_set, time_utc,
                                   utc_correction_usec_per_overflow)
    /\ handled' = handled + 1
    /\ irq_added' = IF mutex = None THEN irq_added
                    ELSE irq_added + (time_utc' - time_utc)
    /\ UNCHANGED <<initialized, utc_set, utc_jump_cnt,
                   utc_correction_usec_per_overflow, CNT, wraps, mutex, cs,
                   procVars, adj_calls, prev_usec, jump_offsets, utc_at_call,
                   clamped, true_usec, utc_seen, prev_utc>>

(* ---------------------------------------------------------------------- *)
(* init(), lines 51-80, and SystemClock::instance(), lines 220-229         *)
(* ---------------------------------------------------------------------- *)

\* Variant: every initialisation starts the UTC clock afresh.
initClearsUtcSet(t) ==
    /\ pc[t] = "idle"
    /\ Runnable(t)
    /\ cs = None
    /\ IF initialized
       THEN UNCHANGED <<initialized, CNT, UIF>>
       ELSE /\ initialized' = TRUE
            /\ CNT' = 0
            /\ UIF' = FALSE
    /\ utc_set' = FALSE
    /\ op' = Upd(op, t, "init")
    /\ Finish(t, 0, "void")
    /\ UNCHANGED <<utc_jump_cnt, utc_correction_usec_per_overflow,
                   time_mono, time_utc, wraps, mutex, cs, adj, time, cnt,
                   handled, adj_calls, prev_usec, ghostVars>>

\* The whole body runs inside a CriticalSectionLock.
init(t) ==
    /\ pc[t] = "idle"
    /\ Runnable(t)
    /\ cs = None
    /\ IF initialized
       THEN UNCHANGED <<initialized, CNT, UIF>>
       ELSE /\ initialized' = TRUE
            /\ CNT' = 0
            /\ UIF' = FALSE
    /\ op' = Upd(op, t, "init")
    /\ Finish(t, 0, "void")
    /\ UNCHANGED <<utc_set, utc_jump_cnt, utc_correction_usec_per_overflow,
                   time_mono, time_utc, wraps, mutex, cs, adj, time, cnt,
                   handled, adj_calls, prev_usec, ghostVars>>

instance(t) ==
    /\ pc[t] = "idle"
    /\ Runnable(t)
    /\ cs = None
    /\ mutex = None
    /\ IF initialized
       THEN UNCHANGED <<initialized, CNT, UIF>>
       ELSE /\ initialized' = TRUE
            /\ CNT' = 0
            /\ UIF' = FALSE
    /\ op' = Upd(op, t, "instance")
    /\ Finish(t, 0, "void")
    /\ UNCHANGED <<utc_set, utc_jump_cnt, utc_correction_usec_per_overflow,
                   time_mono, time_utc, wraps, mutex, cs, adj, time, cnt,
                   handled, adj_calls, prev_usec, ghostVars>>

(* ---------------------------------------------------------------------- *)
(* Read operations, lines 85-143                                           *)
(* ---------------------------------------------------------------------- *)

\* getMonotonic(), lines 118-121 and 90: assert(initialized) is the
\* precondition; the CriticalSectionLock is taken and the accumulator read.
getMonotonic(t) ==
    /\ pc[t] = "idle"
    /\ Runnable(t)
    /\ initialized
    /\ cs' = t
    /\ time' = Upd(time, t, time_mono)
    /\ pc' = Upd(pc, t, "s_cnt")
    /\ op' = Upd(op, t, "getMonotonic")
    /\ UNCHANGED <<clockVars, hwVars, mutex, adj, cnt, usec, exit,
                   handled, adj_calls, prev_usec, ghostVars>>

\* Variant: the clock is sampled whether or not it is synchronized.
getUtcUnchecked(t) ==
    /\ pc[t] = "idle"
    /\ Runnable(t)
    /\ op' = Upd(op, t, "getUtc")
    /\ pc' = Upd(pc, t, "s_time")
    /\ UNCHANGED <<clockVars, hwVars, mutex, cs, adj, time, cnt, usec, exit,
                   handled, adj_calls, prev_usec, ghostVars>>

\* getUtc(), lines 133 and 142: the unsynchronized clock reads as UtcTime().
getUtc(t) ==
    /\ pc[t] = "idle"
    /\ Runnable(t)
    /\ op' = Upd(op, t, "getUtc")
    /\ IF utc_set
       THEN /\ pc' = Upd(pc, t, "s_time")
            /\ UNCHANGED <<usec, exit>>
       ELSE Finish(t, 0, "epoch")
    /\ UNCHANGED <<clockVars, hwVars, mutex, cs, adj, time, cnt,
                   handled, adj_calls, prev_usec, ghostVars>>

\* The caller of getUtc() keeps the value it received and calls again at
\* once (lines 131-133; utc_set is found true, as it was for the first
\* call).  Whatever happens between two calls happens before the second call
\* enters its critical section.
getUtcAgain(t) ==
    /\ pc[t] = "done"
    /\ Scheduled(t)
    /\ op[t] = "getUtc"
    /\ exit[t] = "value"
    /\ utc_set
    /\ utc_seen' = TRUE
    /\ prev_utc' = usec[t]
    /\ pc' = Upd(pc, t, "s_time")
    /\ time' = Upd(time, t, 0)
    /\ cnt' = Upd(cnt, t, 0)
    /\ usec' = Upd(usec, t, 0)
    /\ exit' = Upd(exit, t, "none")
    /\ UNCHANGED <<clockVars, hwVars, mutex, cs, op, adj, handled, adj_calls,
                   prev_usec, jump_offsets, utc_at_call, irq_added, clamped,
                   true_usec>>

\* getUtcUSecFromCanInterrupt(), line 113, entered in interrupt context.  The
\* reading thread changes no clock state, so the interrupt is only taken
\* while that thread is between operations.
getUtcUSecFromCanInterrupt ==
    /\ pc[CanIrq] = "idle"
    /\ pc[Reader] = "idle"
    /\ Runnable(CanIrq)
    /\ op' = Upd(op, CanIrq, "getUtcUSecFromCanInterrupt")
    /\ IF utc_set
       THEN /\ pc' = Upd(pc, CanIrq, "s_time")
            /\ UNCHANGED <<usec, exit>>
       ELSE Finish(CanIrq, 0, "epoch")
    /\ UNCHANGED <<clockVars, hwVars, mutex, cs, adj, time, cnt,
                   handled, adj_calls, prev_usec, ghostVars>>

\* getUtc() line 137 (the thread takes the CriticalSectionLock; the interrupt
\* handler takes none) and line 90 for &time_utc.
sample_time(p) ==
    /\ pc[p] = "s_time"
    /\ Runnable(p)
    /\ cs' = IF p \in Threads THEN p ELSE cs
    /\ time' = Upd(time, p, time_utc)
    /\ pc' = Upd(pc, p, "s_cnt")
    /\ UNCHANGED <<clockVars, hwVars, mutex, op, adj, cnt, usec, exit,
                   handled, adj_calls, prev_usec, ghostVars>>

\* The time the hardware has counted when the counter is read as c: whole
\* periods for the wraps so far, handled or pending, plus the counter.
HardwareTime(c) == USecPerOverflow * wraps + c

\* getMonotonic's read of the counter leaves its instant in true_usec.
ReadInstant(p, c) ==
    /\ true_usec' = IF op[p] = "getMonotonic" THEN HardwareTime(c)
                    ELSE true_usec
    /\ UNCHANGED <<jump_offsets, utc_at_call, irq_added, clamped, utc_seen,
                   prev_utc>>

\* Line 91.
sample_cnt(p, c) ==
    /\ pc[p] = "s_cnt"
    /\ Runnable(p)
    /\ c \in CounterReadings
    /\ CNT' = c
    /\ cnt' = Upd(cnt, p, c)
    /\ pc' = Upd(pc, p, "s_uif")
    /\ ReadInstant(p, c)
    /\ UNCHANGED <<clockVars, UIF, wraps, mutex, cs, op, adj, time, usec, exit,
                   handled, adj_calls, prev_usec>>

\* Line 93.
sample_uif(p) ==
    /\ pc[p] = "s_uif"
    /\ Runnable(p)
    /\ pc' = Upd(pc, p, IF UIF THEN "s_recnt" ELSE "s_ret")
    /\ UNCHANGED <<clockVars, hwVars, mutex, cs, op, adj, time, cnt, usec,
                   exit, handled, adj_calls, prev_usec, ghostVars>>

\* Variant: the period is added but the counter is not read again.
sample_recnt_no_reread(p, c) ==
    /\ pc[p] = "s_recnt"
    /\ Runnable(p)
    /\ c \in CounterReadings
    /\ time' = Upd(time, p, OverflowCompensation(time[p]))
    /\ pc' = Upd(pc, p, "s_ret")
    /\ UNCHANGED <<clockVars, hwVars, mutex, cs, op, adj, cnt, usec, exit,
                   handled, adj_calls, prev_usec, ghostVars>>

\* Lines 100-105.
sample_recnt(p, c) ==
    /\ pc[p] = "s_recnt"
    /\ Runnable(p)
    /\ c \in CounterReadings
    /\ CNT' = c
    /\ cnt' = Upd(cnt, p, c)
    /\ time' = Upd(time, p, OverflowCompensation(time[p]))
    /\ pc' = Upd(pc, p, "s_ret")
    /\ ReadInstant(p, c)
    /\ UNCHANGED <<clockVars, UIF, wraps, mutex, cs, op, adj, usec, exit,
                   handled, adj_calls, prev_usec>>

\* Line 108, the end of the critical section, and the caller's return.
sample_return(p) ==
    /\ pc[p] = "s_ret"
    /\ Runnable(p)
    /\ cs' = IF p \in Threads THEN None ELSE cs
    /\ Finish(p, time[p] + cnt[p], "value")
    /\ UNCHANGED <<clockVars, hwVars, mutex, op, adj, time, cnt,
                   handled, adj_calls, prev_usec, ghostVars>>

(* ---------------------------------------------------------------------- *)
(* adjustUtc(), lines 145-204                                              *)
(* ---------------------------------------------------------------------- *)

\* Line 147: the call proceeds once it holds the mutex; assert(initialized)
\* is the precondition.
adjustUtc(t, d) ==
    /\ pc[t] = "idle"
    /\ Runnable(t)
    /\ initialized
    /\ mutex = None
    /\ adj_calls < MaxAdjustCalls
    /\ mutex' = t
    /\ adj_calls' = adj_calls + 1
    /\ pc' = Upd(pc, t, "a_sync")
    /\ op' = Upd(op, t, "adjustUtc")
    /\ adj' = Upd(adj, t, d)
    /\ utc_at_call' = time_utc
    /\ UNCHANGED <<clockVars, hwVars, cs, time, cnt, usec, exit,
                   handled, prev_usec, jump_offsets, irq_added, clamped,
                   true_usec, utc_seen, prev_utc>>

\* Lines 145-147 with the wait made visible: the call begins and, where the
\* mutex is held by another thread, stands at the MutexLocker until it is
\* released.  adjustUtc(t, d) above is the two steps taken as one.
adjustUtc_call(t, d) ==
    /\ pc[t] = "idle"
    /\ Runnable(t)
    /\ initialized
    /\ adj_calls < MaxAdjustCalls
    /\ adj_calls' = adj_calls + 1
    /\ pc' = Upd(pc, t, "a_lock")
    /\ op' = Upd(op, t, "adjustUtc")
    /\ adj' = Upd(adj, t, d)
    /\ UNCHANGED <<clockVars, hwVars, mutex, cs, time, cnt, usec, exit,
                   handled, prev_usec, ghostVars>>

adjustUtc_lock(t) ==
    /\ pc[t] = "a_lock"
    /\ Runnable(t)
    /\ mutex = None
    /\ mutex' = t
    /\ pc' = Upd(pc, t, "a_sync")
    /\ utc_at_call' = time_utc
    /\ UNCHANGED <<clockVars, hwVars, cs, op, adj, time, cnt, usec, exit,
                   handled, adj_calls, prev_usec, jump_offsets, irq_added,
                   clamped, true_usec, utc_seen, prev_utc>>

\* Variant: the early return leaves the mutex locked.
adjustUtc_perfect_keeps_mutex(t) ==
    /\ pc[t] = "a_sync"
    /\ Runnable(t)
    /\ IF PerfectSync(adj[t], utc_set)
       THEN /\ Finish(t, 0, "perfect_sync")
            /\ UNCHANGED mutex
       ELSE /\ pc' = Upd(pc, t, "a_trim")
            /\ UNCHANGED <<mutex, usec, exit>>
    /\ UNCHANGED <<clockVars, hwVars, cs, op, adj, time, cnt, handled,
                   adj_calls, prev_usec, ghostVars>>

\* Lines 150-153.
adjustUtc_perfect(t) ==
    /\ pc[t] = "a_sync"
    /\ Runnable(t)
    /\ IF PerfectSync(adj[t], utc_set)
       THEN /\ mutex' = None
            /\ Finish(t, 0, "perfect_sync")
       ELSE /\ pc' = Upd(pc, t, "a_trim")
            /\ UNCHANGED <<mutex, usec, exit>>
    /\ UNCHANGED <<clockVars, hwVars, cs, op, adj, time, cnt, handled,
                   adj_calls, prev_usec, ghostVars>>

\* Lines 159-178: the speed adjustment, then the decision about the clock
\* value; without a clock value adjustment the call returns.
adjustUtc_trim(t) ==
    /\ pc[t] = "a_trim"
    /\ Runnable(t)
    /\ utc_correction_usec_per_overflow' =
           SpeedTrim(utc_correction_usec_per_overflow, adj[t])
    /\ IF NeedsClockAdjustment(adj[t], utc_set)
       THEN /\ pc' = Upd(pc, t, "a_offset")
            /\ UNCHANGED <<mutex, usec, exit>>
       ELSE /\ mutex' = None
            /\ Finish(t, 0, "trim_only")
    /\ UNCHANGED <<initialized, utc_set, utc_jump_cnt, time_mono, time_utc,
                   hwVars, cs, op, adj, time, cnt, handled, adj_calls,
                   prev_usec, ghostVars>>

\* Variant: the sum is formed from the accumulator as it was read when the
\* call began, outside the critical section.
adjustUtc_offset_stale(t) ==
    /\ pc[t] = "a_offset"
    /\ Runnable(t)
    /\ cs = None
    /\ time_utc' = ClockAdjustment(utc_at_call, adj[t])
    /\ pc' = Upd(pc, t, "a_flag")
    /\ jump_offsets' = IF utc_set THEN jump_offsets + 1 ELSE jump_offsets
    /\ clamped' = (adj[t] < 0 /\ -adj[t] > time_utc)
    /\ utc_seen' = FALSE
    /\ prev_utc' = 0
    /\ UNCHANGED <<initialized, utc_set, utc_jump_cnt,
                   utc_correction_usec_per_overflow, time_mono, hwVars, mutex,
                   cs, op, adj, time, cnt, usec, exit, handled,
                   adj_calls, prev_usec, utc_at_call, irq_added,
                   true_usec>>

\* Lines 180-192: the critical section is entered and left in this step.
adjustUtc_offset(t) ==
    /\ pc[t] = "a_offset"
    /\ Runnable(t)
    /\ cs = None
    /\ time_utc' = ClockAdjustment(time_utc, adj[t])
    /\ pc' = Upd(pc, t, "a_flag")
    /\ jump_offsets' = IF utc_set THEN jump_offsets + 1 ELSE jump_offsets
    /\ clamped' = (adj[t] < 0 /\ -adj[t] > time_utc)
    /\ utc_seen' = FALSE
    /\ prev_utc' = 0
    /\ UNCHANGED <<initialized, utc_set, utc_jump_cnt,
                   utc_correction_usec_per_overflow, time_mono, hwVars, mutex,
                   cs, op, adj, time, cnt, usec, exit, handled,
                   adj_calls, prev_usec, utc_at_call, irq_added,
                   true_usec>>

\* Variant: the first synchronisation counts as a jump as well.
adjustUtc_flag_counts_first(t) ==
    /\ pc[t] = "a_flag"
    /\ Runnable(t)
    /\ utc_jump_cnt' = utc_jump_cnt + 1
    /\ IF utc_set
       THEN /\ mutex' = None
            /\ Finish(t, 0, "jump")
            /\ UNCHANGED utc_set
       ELSE /\ utc_set' = TRUE
            /\ pc' = Upd(pc, t, "a_reset")
            /\ UNCHANGED <<mutex, usec, exit>>
    /\ UNCHANGED <<initialized, utc_correction_usec_per_overflow, time_mono,
                   time_utc, hwVars, cs, op, adj, time, cnt, handled,
                   adj_calls, prev_usec, ghostVars>>

\* Lines 194-200.
adjustUtc_flag(t) ==
    /\ pc[t] = "a_flag"
    /\ Runnable(t)
    /\ IF utc_set
       THEN /\ utc_jump_cnt' = utc_jump_cnt + 1
            /\ mutex' = None
            /\ Finish(t, 0, "jump")
            /\ UNCHANGED utc_set
       ELSE /\ utc_set' = TRUE
            /\ pc' = Upd(pc, t, "a_reset")
            /\ UNCHANGED <<utc_jump_cnt, mutex, usec, exit>>
    /\ UNCHANGED <<initialized, utc_correction_usec_per_overflow, time_mono,
                   time_utc, hwVars, cs, op, adj, time, cnt, handled,
                   adj_calls, prev_usec, ghostVars>>

\* Variant: the speed correction survives the first synchronisation.
adjustUtc_reset_skipped(t) ==
    /\ pc[t] = "a_reset"
    /\ Runnable(t)
    /\ mutex' = None
    /\ Finish(t, 0, "first_sync")
    /\ UNCHANGED <<clockVars, hwVars, cs, op, adj, time, cnt, handled,
                   adj_calls, prev_usec, ghostVars>>

\* Line 201, then the return.
adjustUtc_reset(t) ==
    /\ pc[t] = "a_reset"
    /\ Runnable(t)
    /\ utc_correction_usec_per_overflow' = 0
    /\ mutex' = None
    /\ Finish(t, 0, "first_sync")
    /\ UNCHANGED <<initialized, utc_set, utc_jump_cnt, time_mono, time_utc,
                   hwVars, cs, op, adj, time, cnt, handled, adj_calls,
                   prev_usec, ghostVars>>

(* ---------------------------------------------------------------------- *)
(* Diagnostics, lines 206-216                                              *)
(* ---------------------------------------------------------------------- *)
getUtcSpeedCorrectionPPM(t) ==
    /\ pc[t] = "idle"
    /\ Runnable(t)
    /\ pc' = Upd(pc, t, "ppm_lock")
    /\ op' = Upd(op, t, "getUtcSpeedCorrectionPPM")
    /\ UNCHANGED <<clockVars, hwVars, mutex, cs, adj, time, cnt, usec, exit,
                   handled, adj_calls, prev_usec, ghostVars>>

\* Lines 208-209: lock, read, unlock.
getUtcSpeedCorrectionPPM_locked(t) ==
    /\ pc[t] = "ppm_lock"
    /\ Runnable(t)
    /\ mutex = None
    /\ Finish(t, SpeedCorrectionPPM(utc_correction_usec_per_overflow), "value")
    /\ UNCHANGED <<clockVars, hwVars, mutex, cs, op, adj, time, cnt,
                   handled, adj_calls, prev_usec, ghostVars>>

getUtcAjdustmentJumpCount(t) ==
    /\ pc[t] = "idle"
    /\ Runnable(t)
    /\ pc' = Upd(pc, t, "jc_lock")
    /\ op' = Upd(op, t, "getUtcAjdustmentJumpCount")
    /\ UNCHANGED <<clockVars, hwVars, mutex, cs, adj, time, cnt, usec, exit,
                   handled, adj_calls, prev_usec, ghostVars>>

\* Lines 214-215: lock, read, unlock.
getUtcAjdustmentJumpCount_locked(t) ==
    /\ pc[t] = "jc_lock"
    /\ Runnable(t)
    /\ mutex = None
    /\ Finish(t, utc_jump_cnt, "value")
    /\ UNCHANGED <<clockVars, hwVars, mutex, cs, op, adj, time, cnt,
                   handled, adj_calls, prev_usec, ghostVars>>

(* ---------------------------------------------------------------------- *)
(* Specification                                                           *)
(* ---------------------------------------------------------------------- *)
Next ==
    \/ TimerWrap
    \/ TIMX_IRQHandler
    \/ init(Adjuster)
    \/ instance(Adjuster)
    \/ getMonotonic(Reader)
    \/ getUtc(Reader)
    \/ getUtcAgain(Reader)
    \/ getUtcUSecFromCanInterrupt
    \/ \E p \in Procs : sample_time(p)
    \/ \E p \in Procs : \E c \in CntValues : sample_cnt(p, c)
    \/ \E p \in Procs : sample_uif(p)
    \/ \E p \in Procs : \E c \in CntValues : sample_recnt(p, c)
    \/ \E p \in Procs : sample_return(p)
    \/ \E d \in Deltas : adjustUtc(Adjuster, d)
    \/ adjustUtc_perfect(Adjuster)
    \/ adjustUtc_trim(Adjuster)
    \/ adjustUtc_offset(Adjuster)
    \/ adjustUtc_flag(Adjuster)
    \/ adjustUtc_reset(Adjuster)
    \/ getUtcSpeedCorrectionPPM(Reader)
    \/ getUtcSpeedCorrectionPPM_locked(Reader)
    \/ getUtcAjdustmentJumpCount(Reader)
    \/ getUtcAjdustmentJumpCount_locked(Reader)
    \/ \E p \in Procs : Return(p)

Spec == Init /\ [][Next]_vars

\* The speed correction needs 500 calls to reach its bound.  InitTrim adds to
\* the start-up state the states the running clock is in after init(), the
\* synchronising adjustUtc(+2 s) and 499 or 500 further calls of one sign made
\* within the first timer period (counted as one call against the bound).
NearBound ==
    {MaxUtcSpeedCorrection - 1, MaxUtcSpeedCorrection,
     1 - MaxUtcSpeedCorrection, -MaxUtcSpeedCorrection}

InitTrim ==
    \/ Init
    \/ /\ initialized = TRUE
       /\ utc_set = TRUE
       /\ utc_jump_cnt = 0
       /\ utc_correction_usec_per_overflow \in NearBound
       /\ time_mono = 0
       /\ time_utc = 2000000
       /\ mutex = None
       /\ CNT = 0
       /\ UIF = FALSE
       /\ cs = None
       /\ pc = Idle
       /\ op = NoOp
       /\ adj = Zero
       /\ time = Zero
       /\ cnt = Zero
       /\ usec = Zero
       /\ exit = NoOp
       /\ wraps = 0
       /\ handled = 0
       /\ adj_calls = 1
       /\ prev_usec = 0
       /\ jump_offsets = 0
       /\ utc_at_call = 0
       /\ irq_added = 0
       /\ clamped = FALSE
       /\ true_usec = 0
       /\ utc_seen = FALSE
       /\ prev_utc = 0

SpecTrim == InitTrim /\ [][Next]_vars

\* getUtcSpeedCorrectionPPM() as a function of the speed correction: InitPPM
\* is the running, synchronized clock with the correction at any value the
\* speed adjustment can leave it at (that many calls of one sign after the
\* synchronising one), and only the diagnostic is called.
InitPPM ==
    /\ initialized = TRUE
    /\ utc_set = TRUE
    /\ utc_jump_cnt = 0
    /\ utc_correction_usec_per_overflow
           \in (-MaxUtcSpeedCorrection)..MaxUtcSpeedCorrection
    /\ time_mono = 0
    /\ time_utc = 2000000
    /\ mutex = None
    /\ CNT = 0
    /\ UIF = FALSE
    /\ cs = None
    /\ pc = Idle
    /\ op = NoOp
    /\ adj = Zero
    /\ time = Zero
    /\ cnt = Zero
    /\ usec = Zero
    /\ exit = NoOp
    /\ wraps = 0
    /\ handled = 0
    /\ adj_calls = 1
    /\ prev_usec = 0
    /\ jump_offsets = 0
    /\ utc_at_call = 0
    /\ irq_added = 0
    /\ clamped = FALSE
    /\ true_usec = 0
    /\ utc_seen = FALSE
    /\ prev_utc = 0

NextPPM ==
    \/ getUtcSpeedCorrectionPPM(Reader)
    \/ getUtcSpeedCorrectionPPM_locked(Reader)
    \/ Return(Reader)

SpecPPM == InitPPM /\ [][NextPPM]_vars

\* Interrupt latency.  Spec and SpecTrim let a wrap stay pending for any time
\* short of a period.  The driver's critical sections are a few statements
\* long, and the timer interrupt is served long before the counter comes near
\* its next reload: while a wrap is pending the counter is not read beyond
\* MaxIrqLatency.
MaxIrqLatency == USecPerOverflow - MaxUtcSpeedCorrection

PromptIrq == UIF => CNT <= MaxIrqLatency

NextPrompt ==
    \/ TimerWrap
    \/ TIMX_IRQHandler
    \/ init(Adjuster)
    \/ instance(Adjuster)
    \/ getMonotonic(Reader)
    \/ getUtc(Reader)
    \/ getUtcAgain(Reader)
    \/ getUtcUSecFromCanInterrupt
    \/ \E p \in Procs : sample_time(p)
    \/ \E p \in Procs : \E c \in CntValues : sample_cnt(p, c) /\ PromptIrq'
    \/ \E p \in Procs : sample_uif(p)
    \/ \E p \in Procs : \E c \in CntValues : sample_recnt(p, c) /\ PromptIrq'
    \/ \E p \in Procs : sample_return(p)
    \/ \E d \in Deltas : adjustUtc(Adjuster, d)
    \/ adjustUtc_perfect(Adjuster)
    \/ adjustUtc_trim(Adjuster)
    \/ adjustUtc_offset(Adjuster)
    \/ adjustUtc_flag(Adjuster)
    \/ adjustUtc_reset(Adjuster)
    \/ getUtcSpeedCorrectionPPM(Reader)
    \/ getUtcSpeedCorrectionPPM_locked(Reader)
    \/ getUtcAjdustmentJumpCount(Reader)
    \/ getUtcAjdustmentJumpCount_locked(Reader)
    \/ \E p \in Procs : Return(p)

SpecPrompt == InitTrim /\ [][NextPrompt]_vars

\* The monotonic clock on its own: init(), wraps, and reads of a clock that
\* is never synchronized.
NextMono ==
    \/ TimerWrapScenario
    \/ TIMX_IRQHandler
    \/ init(Adjuster)
    \/ getMonotonic(Reader)
    \/ getUtc(Reader)
    \/ \E c \in CntValues : sample_cnt(Reader, c)
    \/ sample_uif(Reader)
    \/ \E c \in CntValues : sample_recnt(Reader, c)
    \/ sample_return(Reader)
    \/ \E t \in Threads : Return(t)

SpecMono == Init /\ [][NextMono]_vars

(* ---------------------------------------------------------------------- *)
(* Progress: both threads call adjustUtc() and the diagnostics             *)
(* ---------------------------------------------------------------------- *)

\* Arguments that take adjustUtc through each of its return points.
LiveDeltas == {0, 50, 2000000}

\* A step of the operation the process p is executing.
Proceed(p) ==
    \/ sample_time(p)
    \/ \E c \in CntValues : sample_cnt(p, c)
    \/ sample_uif(p)
    \/ \E c \in CntValues : sample_recnt(p, c)
    \/ sample_return(p)
    \/ /\ p \in Threads
       /\ \/ adjustUtc_lock(p)
          \/ adjustUtc_perfect(p)
          \/ adjustUtc_trim(p)
          \/ adjustUtc_offset(p)
          \/ adjustUtc_flag(p)
          \/ adjustUtc_reset(p)
          \/ getUtcSpeedCorrectionPPM_locked(p)
          \/ getUtcAjdustmentJumpCount_locked(p)
    \/ Return(p)

NextLive ==
    \/ TimerWrap
    \/ TIMX_IRQHandler
    \/ \E t \in Threads : instance(t)
    \/ getUtc(Reader)
    \/ getUtcUSecFromCanInterrupt
    \/ \E t \in Threads : \E d \in LiveDeltas : adjustUtc_call(t, d)
    \/ \E t \in Threads : getUtcSpeedCorrectionPPM(t)
    \/ \E t \in Threads : getUtcAjdustmentJumpCount(t)
    \/ \E p \in Procs : sample_time(p)
    \/ \E p \in Procs : \E c \in CntValues : sample_cnt(p, c)
    \/ \E p \in Procs : sample_uif(p)
    \/ \E p \in Procs : \E c \in CntValues : sample_recnt(p, c)
    \/ \E p \in Procs : sample_return(p)
    \/ \E t \in Threads : adjustUtc_lock(t)
    \/ \E t \in Threads : adjustUtc_perfect(t)
    \/ \E t \in Threads : adjustUtc_trim(t)
    \/ \E t \in Threads : adjustUtc_offset(t)
    \/ \E t \in Threads : adjustUtc_flag(t)
    \/ \E t \in Threads : adjustUtc_reset(t)
    \/ \E t \in Threads : getUtcSpeedCorrectionPPM_locked(t)
    \/ \E t \in Threads : getUtcAjdustmentJumpCount_locked(t)
    \/ \E p \in Procs : Return(p)

\* Scheduling: every ready thread gets the processor again and again, the
\* mutex is handed to a waiting thread when it is released, and a pending
\* interrupt is taken once it is unmasked.
Fairness ==
    /\ \A p \in Procs : SF_vars(Proceed(p))
    /\ SF_vars(TIMX_IRQHandler)

SpecLive == Init /\ [][NextLive]_vars /\ Fairness

(* ---------------------------------------------------------------------- *)
(* Properties                                                              *)
(* ---------------------------------------------------------------------- *)

\* The process p has just finished operation o.
Returned(p, o) == pc[p] = "done" /\ op[p] = o

\* C1: every value getMonotonic returns is greater than or equal to the value
\* it returned before, whatever wraps (pending or handled) lie in between.
C1_MonotonicNonDecreasing ==
    \A p \in Procs : Returned(p, "getMonotonic") => prev_usec <= usec[p]

\* A second call returns while a wrap is pending: the pending wrap is
\* compensated and the value lies beyond the previous one.
C1_Witness ==
    \E p \in Procs :
        /\ Returned(p, "getMonotonic")
        /\ UIF
        /\ prev_usec = TimerARR
        /\ usec[p] >= USecPerOverflow

\* C2: the monotonic accumulator is the period times the number of wraps
\* handled, and every wrap is either handled or the one pending; nothing but
\* the handler moves it.
C2_MonoAccumulatorExact ==
    /\ time_mono = USecPerOverflow * handled
    /\ handled = wraps - (IF UIF THEN 1 ELSE 0)

\* Two wraps handled while readers and adjustUtc were at work.
C2_Witness ==
    /\ time_mono = 2 * USecPerOverflow
    /\ utc_set
    /\ prev_usec > 0
    /\ pc[Adjuster] = "a_flag"

\* C3: a run of the handler adds the period plus the signed correction to the
\* UTC accumulator when the clock is synchronized, and leaves it otherwise.
C3_HandlerUtcStep ==
    [][handled' = handled + 1 =>
          time_utc' = IF utc_set
                      THEN time_utc + USecPerOverflow
                               + utc_correction_usec_per_overflow
                      ELSE time_utc]_vars

\* The handler has run on a clock synchronized at 2 s and trimmed by -50 us.
C3_Witness ==
    /\ utc_set
    /\ handled = 1
    /\ utc_correction_usec_per_overflow = -1
    /\ time_utc = 2000000 + USecPerOverflow - 1

\* C4: while the clock is not synchronized, getUtc and
\* getUtcUSecFromCanInterrupt return zero.
C4_UnsynchronizedUtcIsZero ==
    \A p \in Procs :
        (/\ pc[p] = "done"
         /\ op[p] \in {"getUtc", "getUtcUSecFromCanInterrupt"}
         /\ ~utc_set)
            => usec[p] = 0

\* getUtc returns on an unsynchronized clock after two wraps, the counter
\* standing at its last value.
C4_Witness ==
    /\ Returned(Reader, "getUtc")
    /\ ~utc_set
    /\ handled = 2
    /\ CNT = TimerARR
    /\ usec[Reader] = 0


\* The thread t takes a step of an adjustUtc call with argument d.
AdjustStep(t, d) ==
    /\ pc'[t] # pc[t]
    /\ op'[t] = "adjustUtc"
    /\ adj'[t] = d

\* The call in progress found the clock synchronized when it began: utc_set
\* is written under the mutex only, and a first call that has just set it
\* stands at line 201.
AlreadySynchronized(t) == utc_set /\ pc[t] # "a_reset"

\* C5: adjustUtc(0) on a synchronized clock returns at once and none of its
\* steps changes the speed correction, the UTC accumulator, the synchronized
\* flag, the jump count or the monotonic accumulator.
C5_PerfectSyncChangesNothing ==
    [][\A t \in Threads :
          (AdjustStep(t, 0) /\ AlreadySynchronized(t)) =>
              /\ UNCHANGED clockVars
              /\ pc[t] = "a_sync" => pc'[t] = "done"]_vars

\* adjustUtc(0) has returned from a synchronized clock.
C5_Witness ==
    /\ Returned(Adjuster, "adjustUtc")
    /\ adj[Adjuster] = 0
    /\ adj_calls = 2
    /\ exit[Adjuster] = "perfect_sync"

\* C6: the first adjustUtc call, whatever its argument, returns with the clock
\* synchronized, the speed correction at zero and the jump count still zero.
C6_FirstAdjustmentSynchronizes ==
    \A t \in Threads :
        (Returned(t, "adjustUtc") /\ adj_calls = 1) =>
            /\ utc_set
            /\ utc_correction_usec_per_overflow = 0
            /\ utc_jump_cnt = 0

\* The first call, adjustUtc(+2 s), has returned.
C6_Witness ==
    /\ Returned(Adjuster, "adjustUtc")
    /\ adj_calls = 1
    /\ adj[Adjuster] = 2000000
    /\ time_utc = 2000000
    /\ utc_set

C8_SmallErrorTrimsOnly ==
    [][\A t \in Threads : \A d \in Deltas \ {0} :
          (AdjustStep(t, d) /\ Abs(d) <= 1000 /\ AlreadySynchronized(t)) =>
              /\ UNCHANGED <<time_utc, utc_jump_cnt, utc_set, time_mono>>
              /\ pc[t] = "a_trim" =>
                    /\ pc'[t] = "done"
                    /\ utc_correction_usec_per_overflow' =
                         IF d > 0
                         THEN IF utc_correction_usec_per_overflow
                                    = MaxUtcSpeedCorrection
                              THEN MaxUtcSpeedCorrection
                              ELSE utc_correction_usec_per_overflow + 1
                         ELSE IF utc_correction_usec_per_overflow
                                    = -MaxUtcSpeedCorrection
                              THEN -MaxUtcSpeedCorrection
                              ELSE utc_correction_usec_per_overflow - 1
              /\ pc[t] # "a_trim" =>
                    UNCHANGED utc_correction_usec_per_overflow]_vars

\* adjustUtc(-50) has returned from a synchronized clock: the correction went
\* from 0 to -1 and the accumulator kept the value of the synchronisation.
C8_Witness ==
    /\ Returned(Adjuster, "adjustUtc")
    /\ adj[Adjuster] = -50
    /\ exit[Adjuster] = "trim_only"
    /\ utc_correction_usec_per_overflow = -1
    /\ time_utc = 2000000
    /\ utc_jump_cnt = 0

\* C9: a clock value step with a negative argument larger in magnitude than
\* the UTC accumulator leaves the accumulator at exactly 1.
C9_NegativeStepClampsToOne ==
    [][\A t \in Threads :
          (/\ pc[t] = "a_offset"
           /\ pc'[t] # pc[t]
           /\ adj[t] < 0
           /\ -adj[t] > time_utc)
              => time_utc' = 1]_vars

\* A synchronized clock standing at 50 us plus one period was stepped by -2 s.
C9_Witness ==
    /\ pc[Adjuster] = "a_flag"
    /\ adj[Adjuster] = -2000000
    /\ utc_set
    /\ handled = 1
    /\ time_utc = 1

\* C10: the speed correction always lies within [-500, +500]; the speed
\* adjustment of a call with a positive argument raises it by one, or holds it
\* at +500, and that of a call with a negative argument lowers it by one, or
\* holds it at -500.
C10_SpeedCorrectionBounded ==
    /\ [](/\ utc_correction_usec_per_overflow >= -500
          /\ utc_correction_usec_per_overflow <= 500)
    /\ [][\A t \in Threads : \A d \in Deltas \ {0} :
             (AdjustStep(t, d) /\ pc[t] = "a_trim") =>
                 utc_correction_usec_per_overflow' =
                     IF d > 0
                     THEN IF utc_correction_usec_per_overflow < 500
                          THEN utc_correction_usec_per_overflow + 1
                          ELSE 500
                     ELSE IF utc_correction_usec_per_overflow > -500
                          THEN utc_correction_usec_per_overflow - 1
                          ELSE -500]_vars

\* A further positive argument has met the correction at +500; the handler
\* has applied the bound since.
C10_Witness ==
    /\ Returned(Adjuster, "adjustUtc")
    /\ adj[Adjuster] = 50
    /\ utc_correction_usec_per_overflow = 500
    /\ time_utc = 2000000 + USecPerOverflow + 500

\* C11: the synchronized flag is false until the first adjustUtc call, is
\* set by that call (at line 200) before it returns, and no step of any
\* operation - adjustUtc, the timer handler, the reads, a repeated init() or
\* instance() - takes it from true back to false.
C11_SynchronizedOneWay ==
    /\ [](adj_calls = 0 => ~utc_set)
    /\ [](\A t \in Threads : Returned(t, "adjustUtc") => utc_set)
    /\ [][(~utc_set /\ utc_set') =>
             \E t \in Threads :
                 /\ pc[t] = "a_flag"
                 /\ op[t] = "adjustUtc"
                 /\ adj_calls = 1]_vars
    /\ [][utc_set => utc_set']_vars

\* init() is repeated on a clock that was synchronized, stepped once more,
\* read, and carried over two handled wraps: the flag is still set.
C11_Witness ==
    /\ Returned(Adjuster, "init")
    /\ utc_set
    /\ utc_jump_cnt = 1
    /\ handled = 2
    /\ prev_usec > 0

\* C12: the jump count moves only at line 196, by exactly one, in an
\* adjustUtc call that has adjusted the clock value of a clock already set;
\* outside such a call it equals the number of clock value adjustments made
\* on a set clock, getUtcAjdustmentJumpCount returns that number, and a
\* positive count implies a set clock.
C12_JumpCountCountsSteps ==
    /\ [](utc_jump_cnt > 0 => utc_set)
    /\ [](mutex = None => utc_jump_cnt = jump_offsets)
    /\ [](Returned(Reader, "getUtcAjdustmentJumpCount")
             => usec[Reader] = jump_offsets)
    /\ [](\A t \in Threads :
             (pc[t] = "a_flag" /\ utc_set) => jump_offsets = utc_jump_cnt + 1)
    /\ [][utc_jump_cnt' # utc_jump_cnt =>
             /\ utc_jump_cnt' = utc_jump_cnt + 1
             /\ \E t \in Threads :
                    /\ pc[t] = "a_flag"
                    /\ op[t] = "adjustUtc"
                    /\ AlreadySynchronized(t)]_vars

\* The first call (+2 s) set the clock, the second (-2 s) stepped it: the
\* count read afterwards is one.
C12_Witness ==
    /\ Returned(Reader, "getUtcAjdustmentJumpCount")
    /\ usec[Reader] = 1
    /\ jump_offsets = 1
    /\ adj_calls = 2
    /\ utc_set

\* C13: for every speed correction in [-500, +500] the 32-bit product
\* correction * 1000000 does not overflow and getUtcSpeedCorrectionPPM
\* returns that product divided by 65536 with the quotient truncated toward
\* zero; +500 gives 7629 and -500 gives -7629.
C13_PPMTruncatesTowardZero ==
    Returned(Reader, "getUtcSpeedCorrectionPPM") =>
        LET c == utc_correction_usec_per_overflow
            q == usec[Reader]
        IN  /\ Abs(c) <= Int32Max \div PPMScale
            /\ Abs(q) * USecPerOverflow <= Abs(c) * PPMScale
            /\ Abs(c) * PPMScale < (Abs(q) + 1) * USecPerOverflow
            /\ c > 0 => q > 0
            /\ c < 0 => q < 0
            /\ c = 500 => q = 7629
            /\ c = -500 => q = -7629

\* The diagnostic has returned -7629 for the correction at -500.
C13_Witness ==
    /\ Returned(Reader, "getUtcSpeedCorrectionPPM")
    /\ utc_correction_usec_per_overflow = -MaxUtcSpeedCorrection
    /\ usec[Reader] = -7629

\* Positions of sampleFromCriticalSection() after the read of the accumulator
\* and before the sum is formed.
SamplerWindow == {"s_cnt", "s_uif", "s_recnt", "s_ret"}

C15_OffsetLeavesPositive ==
    \A t \in Threads :
        (/\ Returned(t, "adjustUtc")
         /\ exit[t] \in {"jump", "first_sync"})
            => time_utc >= 1

\* C16: when an adjustUtc call that adjusted the clock value without the
\* clamp returns, the UTC accumulator is its value at the start of the call
\* plus the argument plus everything the timer handler added during the
\* call, wherever the handled wraps fell.
C16_NoLostUpdate ==
    \A t \in Threads :
        (/\ Returned(t, "adjustUtc")
         /\ exit[t] \in {"jump", "first_sync"}
         /\ ~clamped)
            => time_utc = utc_at_call + adj[t] + irq_added

\* adjustUtc(+1500) on the clock set at 2 s: one wrap was handled before the
\* speed adjustment of the call (65536 added) and one after it (65537).
C16_Witness ==
    /\ Returned(Adjuster, "adjustUtc")
    /\ exit[Adjuster] = "jump"
    /\ adj[Adjuster] = 1500
    /\ ~clamped
    /\ utc_at_call = 2000000
    /\ irq_added = 2 * USecPerOverflow + 1
    /\ time_utc = 2000000 + 1500 + 2 * USecPerOverflow + 1

\* Some operation is in progress.
Busy == \E p \in Procs : pc[p] # "idle"

\* Positions of the read operations.
ReadWindow == SamplerWindow \cup {"s_time"}

\* C17: the mutex changes hands only in steps of adjustUtc; a read operation
\* that is scheduled can take its step, and a pending timer interrupt that is
\* unmasked can be taken, whoever holds the mutex; while any operation is in
\* progress some operation in progress can take a step; and under fair
\* scheduling every operation begun returns and every pending wrap is handled.
C17_EveryCallReturns ==
    /\ [][mutex' # mutex =>
             \E t \in Threads : op'[t] = "adjustUtc" /\ pc'[t] # pc[t]]_vars
    /\ [](\A p \in Procs :
             (pc[p] \in ReadWindow /\ Runnable(p)) => ENABLED Proceed(p))
    /\ [](Busy => \E p \in Procs : ENABLED Proceed(p))
    /\ \A p \in Procs : (pc[p] # "idle") ~> (pc[p] = "idle")
    /\ UIF ~> ~UIF

\* One thread holds the mutex inside adjustUtc while the other waits for it in
\* a call of its own, a wrap being pending.
C17_Witness ==
    /\ pc[Reader] = "a_lock"
    /\ mutex = Adjuster
    /\ pc[Adjuster] = "a_offset"
    /\ UIF
    /\ handled = 1

\* C18: from the first adjustUtc call until the next one begins, every run
\* of the timer handler on the synchronized clock adds exactly the period to
\* the UTC accumulator: the speed correction the first call computed at lines
\* 159-172 is never applied.
C18_FirstSyncDiscardsTrim ==
    [][(handled' = handled + 1 /\ utc_set /\ adj_calls = 1) =>
          time_utc' = time_utc + USecPerOverflow]_vars

\* C19: the value getMonotonic returns is the time the hardware had counted
\* at the call's last read of the counter - the period times the number of
\* wraps up to then, handled or pending, plus the counter as read - and is
\* not beyond the hardware time at the return; with three wraps, all
\* handled, it is 196608 plus the counter.
C19_MonotonicIsHardwareTime ==
    Returned(Reader, "getMonotonic") =>
        /\ usec[Reader] = true_usec
        /\ usec[Reader] <= HardwareTime(CNT)
        /\ (wraps = 3 /\ handled = 3) => usec[Reader] = 196608 + cnt[Reader]

\* getMonotonic returns while the third wrap is still pending: 196608 plus
\* the counter at its last value.
C19_Witness ==
    /\ Returned(Reader, "getMonotonic")
    /\ wraps = 3
    /\ handled = 2
    /\ UIF
    /\ usec[Reader] = 196608 + TimerARR
    /\ ~utc_set

UtcBackwardBoundedAnyLatency ==
    (/\ Returned(Reader, "getUtc")
     /\ exit[Reader] = "value"
     /\ utc_seen)
        => usec[Reader] >= prev_utc - (2 * MaxUtcSpeedCorrection - 1)

====
